---- MODULE Spec2Model ----
(***************************************************************************)
(* HyperFlow daemon (src/hyperflow/daemon.py): the event loop that reads   *)
(* compositor event lines, matches them against the loaded rules with      *)
(* debouncing, and hands the actions of matched rules to the shell.        *)
(*                                                                         *)
(* Text that the daemon parses (socket lines, event types, field values,   *)
(* condition values) is modelled as sequences of one-character strings.    *)
(* Dictionary keys, rule ids and command strings are opaque and modelled   *)
(* as strings.  Time is the event loop's monotonic clock in milliseconds   *)
(* (the code compares seconds against debounce_ms / 1000).                 *)
(*                                                                         *)
(* The signal handlers run in the main thread wherever the daemon is: a    *)
(* SIGHUP or SIGTERM is delivered while the loop is blocked in readline or *)
(* between the steps of process_event (parse, one rule, one action).  The  *)
(* lines and rule documents are fixed small sets; any number of lines and  *)
(* reloads may arrive, only the clock is bounded.                          *)
(***************************************************************************)
EXTENDS Integers, Sequences, FiniteSets, TLC

(* ---------------------------- bounds ----------------------------------- *)
MaxTicks == 4      \* clock advances in one run
TickMs == 50       \* milliseconds per clock advance
MaxLineLen == 5    \* length of the texts handed to parse_event directly

(* ------------------------ Python helpers ------------------------------- *)
\* dict.get(key, default)
Get(d, key, default) == IF key \in DOMAIN d THEN d[key] ELSE default

EmptyDict == <<>>

\* the value of a missing 'type' key: differs from every parsed event type
NoType == <<"None">>

Whitespace == {" ", "\n", "\t", "\r"}

Min(S) == CHOOSE x \in S : \A y \in S : x <= y
Max(S) == CHOOSE x \in S : \A y \in S : x >= y

\* str.strip(): drop leading and trailing whitespace
strip(s) ==
  LET keep == {i \in 1..Len(s) : s[i] \notin Whitespace}
  IN  IF keep = {} THEN <<>> ELSE SubSeq(s, Min(keep), Max(keep))

\* positions at which the two-character delimiter '>>' starts
DelimAt(s) == {i \in 1..(Len(s) - 1) : s[i] = ">" /\ s[i + 1] = ">"}

\* cut at the first comma only
split_comma_first(s) ==
  LET commas == {i \in 1..Len(s) : s[i] = ","}
  IN  IF commas = {} THEN <<s>>
      ELSE <<SubSeq(s, 1, Min(commas) - 1), SubSeq(s, Min(commas) + 1, Len(s))>>

\* str.split(','): cut at every comma, empty pieces kept
split_comma(s) ==
  LET commas == {i \in 1..Len(s) : s[i] = ","}
      n == Cardinality(commas)
      \* position of the p-th comma; 0 before the first, Len+1 after the last
      cut(p) == IF p = 0 THEN 0
                ELSE IF p = n + 1 THEN Len(s) + 1
                ELSE CHOOSE i \in commas : Cardinality({c \in commas : c <= i}) = p
  IN  [p \in 1..(n + 1) |-> SubSeq(s, cut(p - 1) + 1, cut(p) - 1)]

\* a line without '>>' taken as an event type with no data
parse_event_lenient(event_str) ==
  IF DelimAt(event_str) = {}
  THEN [none |-> FALSE, event_type |-> event_str, event_data |-> << <<>> >>]
  ELSE LET d == Min(DelimAt(event_str))
       IN  [none |-> FALSE,
            event_type |-> SubSeq(event_str, 1, d - 1),
            event_data |-> split_comma(SubSeq(event_str, d + 2, Len(event_str)))]

\* parse_event: (None, None) without '>>', else the text before the first
\* '>>' and the remainder split on ','
parse_event(event_str) ==
  IF DelimAt(event_str) = {}
  THEN [none |-> TRUE, event_type |-> <<>>, event_data |-> <<>>]
  ELSE LET d == Min(DelimAt(event_str))
       IN  [none |-> FALSE,
            event_type |-> SubSeq(event_str, 1, d - 1),
            event_data |-> split_comma(SubSeq(event_str, d + 2, Len(event_str)))]

(* ------------------------ event type names ----------------------------- *)
T_openwindow == <<"o","p","e","n","w","i","n","d","o","w">>
T_closewindow == <<"c","l","o","s","e","w","i","n","d","o","w">>
T_activewindow == <<"a","c","t","i","v","e","w","i","n","d","o","w">>
T_activewindowv2 == <<"a","c","t","i","v","e","w","i","n","d","o","w","v","2">>
T_workspace == <<"w","o","r","k","s","p","a","c","e">>
T_workspacev2 == <<"w","o","r","k","s","p","a","c","e","v","2">>
T_destroyworkspacev2 == <<"d","e","s","t","r","o","y","w","o","r","k","s","p","a","c","e","v","2">>
T_windowtitle == <<"w","i","n","d","o","w","t","i","t","l","e">>
T_windowtitlev2 == <<"w","i","n","d","o","w","t","i","t","l","e","v","2">>
T_activelayout == <<"a","c","t","i","v","e","l","a","y","o","u","t">>

\* property name -> zero-based index into the event data, per event type
property_map(event_type) ==
  CASE event_type = T_openwindow -> [address |-> 0, workspace |-> 1, class |-> 2, title |-> 3]
    [] event_type = T_closewindow -> [address |-> 0, workspace |-> 1, class |-> 2, title |-> 3]
    [] event_type = T_activewindow -> [class |-> 0, title |-> 1]
    [] event_type = T_activewindowv2 -> [address |-> 0]
    [] event_type = T_workspace -> [name |-> 0]
    [] event_type = T_workspacev2 -> [name |-> 0, id |-> 1]
    [] event_type = T_destroyworkspacev2 -> [name |-> 0, id |-> 1]
    [] event_type = T_windowtitle -> [address |-> 0]
    [] event_type = T_windowtitlev2 -> [address |-> 0, title |-> 1]
    [] event_type = T_activelayout -> [keyboard |-> 0, layout |-> 1]
    [] OTHER -> EmptyDict

(* ------------------------ string comparisons --------------------------- *)
\* the value may start anywhere in the field
startswith_anywhere(a, v) == \E i \in 0..(Len(a) - Len(v)) : SubSeq(a, i + 1, i + Len(v)) = v

startswith(a, v) == Len(v) <= Len(a) /\ SubSeq(a, 1, Len(v)) = v
endswith(a, v) == Len(v) <= Len(a) /\ SubSeq(a, Len(a) - Len(v) + 1, Len(a)) = v
\* v in a
contains(a, v) == \E i \in 0..(Len(a) - Len(v)) : SubSeq(a, i + 1, i + Len(v)) = v

Digits == {"0", "1", "2", "3", "4", "5", "6", "7", "8", "9"}
DigitVal(c) == CASE c = "0" -> 0 [] c = "1" -> 1 [] c = "2" -> 2 [] c = "3" -> 3
                 [] c = "4" -> 4 [] c = "5" -> 5 [] c = "6" -> 6 [] c = "7" -> 7
                 [] c = "8" -> 8 [] c = "9" -> 9

RECURSIVE DecVal(_)
DecVal(s) == IF s = <<>> THEN 0 ELSE 10 * DecVal(SubSeq(s, 1, Len(s) - 1)) + DigitVal(s[Len(s)])

\* float(s) on the texts of this model (letters, digits, blanks, ',' and
\* '>'): surrounding whitespace is ignored and a non-empty run of decimal
\* digits is a number; anything else raises ValueError
float(s) ==
  LET t == strip(s)
  IN  IF t # <<>> /\ \A i \in 1..Len(t) : t[i] \in Digits
      THEN [ok |-> TRUE, val |-> DecVal(t)]
      ELSE [ok |-> FALSE, val |-> 0]

\* the float conversions without a try / except around them
CatchesValueError_missing == FALSE

\* except ValueError around the float conversions
CatchesValueError == TRUE

\* the length test left out
OutOfRange_off(index, n) == FALSE

\* if index >= len(event_data): return False
OutOfRange(index, n) == index >= n

\* check_condition: ret is the returned boolean, exc says that an exception
\* left the function instead (event_data[index] raises IndexError past the
\* end of the list)
check_condition(condition, event_data, event_type) ==
  LET property_name == Get(condition, "property", "None")
      operator == Get(condition, "operator", "None")
      expected_value == Get(condition, "value", <<>>)
      event_property_map == property_map(event_type)
      False == [ret |-> FALSE, exc |-> FALSE]
      Ret(b) == [ret |-> b, exc |-> FALSE]
  IN  IF property_name \notin DOMAIN event_property_map THEN False
      ELSE LET index == event_property_map[property_name] IN
        IF OutOfRange(index, Len(event_data)) THEN False
        ELSE IF index >= Len(event_data) THEN [ret |-> FALSE, exc |-> TRUE]
        ELSE LET actual_value == event_data[index + 1]
                 fa == float(actual_value)
                 fe == float(expected_value)
                 numeric == fa.ok /\ fe.ok
             IN CASE operator = "equals" -> Ret(actual_value = expected_value)
                  [] operator = "contains" -> Ret(contains(actual_value, expected_value))
                  [] operator = "startswith" -> Ret(startswith(actual_value, expected_value))
                  [] operator = "endswith" -> Ret(endswith(actual_value, expected_value))
                  [] operator = "greater" ->
                       IF numeric THEN Ret(fa.val > fe.val)
                       ELSE IF CatchesValueError THEN False
                       ELSE [ret |-> FALSE, exc |-> TRUE]
                  [] operator = "less" ->
                       IF numeric THEN Ret(fa.val < fe.val)
                       ELSE IF CatchesValueError THEN False
                       ELSE [ret |-> FALSE, exc |-> TRUE]
                  [] OTHER -> False

(* --------------------------- rule matching ----------------------------- *)
\* self.last_event_time.get(rule_id, 0)
LastTime(let, rule_id) == IF rule_id \in DOMAIN let THEN let[rule_id] ELSE 0

\* self.last_event_time[rule_id] = current_time
SetTime(let, rule_id, t) ==
  [x \in (DOMAIN let) \cup {rule_id} |-> IF x = rule_id THEN t ELSE let[x]]

\* the window taken as seconds while the clock is in milliseconds
Debounced_units(current_time, last_time, debounce_ms) ==
  current_time - last_time < debounce_ms \div 1000

\* the debounce test: TRUE when the event is suppressed
Debounced(current_time, last_time, debounce_ms) == current_time - last_time < debounce_ms

\* a suppressed event restarts the window
AfterSuppress_slides(let, rule_id, current_time) == SetTime(let, rule_id, current_time)

\* the map after an event was suppressed by the debounce test
AfterSuppress(let, rule_id, current_time) == let

\* the enabled flag is not looked at
DisabledSkips_ignored(rule) == FALSE

\* if not rule.get('enabled', True): return False
DisabledSkips(rule) == ~Get(rule, "enabled", TRUE)

\* the time is recorded only when the conditions hold as well
OnPass_iffired(let, rule_id, current_time, ok) ==
  IF ok THEN SetTime(let, rule_id, current_time) ELSE let

\* the map after the debounce test let the event pass; ok says whether the
\* conditions checked afterwards will hold
OnPass(let, rule_id, current_time, ok) == SetTime(let, rule_id, current_time)

\* the debounce test is made whatever the window
HasWindow_always(debounce_ms) == TRUE

\* if debounce_ms > 0:
HasWindow(debounce_ms) == debounce_ms > 0

\* one true condition is enough
StopsAt_any(res) ==
  IF \E i \in 1..Len(res) : res[i].ret THEN {} ELSE 1..Len(res)

\* the conditions at which the for loop over the conditions ends the call:
\* check_condition returned False there, or raised
StopsAt(res) == {i \in 1..Len(res) : res[i].exc \/ ~res[i].ret}

\* the debounce entry is kept under the name of the rule
RuleKey_name(rule) == Get(rule, "name", "")

\* rule_id = rule.get('id', ''): the key of the rule in last_event_time
RuleKey(rule) == Get(rule, "id", "")

\* the trigger type is not looked at
WrongType_never(trigger_type, event_type) == FALSE

\* if trigger.get('type') != event_type: return False
WrongType(trigger_type, event_type) == trigger_type # event_type

\* should_execute_rule: ret is the returned boolean, exc says an exception
\* left the function, let is self.last_event_time afterwards, gate says what
\* the debounce test did ("none": not reached or window 0)
should_execute_rule(rule, event_type, event_data, let, current_time) ==
  LET trigger == Get(rule, "trigger", EmptyDict)
      rule_id == RuleKey(rule)
      debounce_ms == Get(trigger, "debounce", 0)
      conditions == Get(rule, "conditions", <<>>)
      res == [i \in 1..Len(conditions) |-> check_condition(conditions[i], event_data, event_type)]
      stops == StopsAt(res)
      Conds(l, g) ==
        IF stops = {} THEN [ret |-> TRUE, exc |-> FALSE, let |-> l, gate |-> g]
        ELSE [ret |-> FALSE, exc |-> res[Min(stops)].exc, let |-> l, gate |-> g]
  IN  IF DisabledSkips(rule)
      THEN [ret |-> FALSE, exc |-> FALSE, let |-> let, gate |-> "none"]
      ELSE IF WrongType(Get(trigger, "type", NoType), event_type)
      THEN [ret |-> FALSE, exc |-> FALSE, let |-> let, gate |-> "none"]
      ELSE IF HasWindow(debounce_ms)
      THEN IF Debounced(current_time, LastTime(let, rule_id), debounce_ms)
           THEN [ret |-> FALSE, exc |-> FALSE,
                 let |-> AfterSuppress(let, rule_id, current_time), gate |-> "reject"]
           ELSE Conds(OnPass(let, rule_id, current_time, stops = {}), "pass")
      ELSE Conds(let, "none")

(* ------------------------------ inputs --------------------------------- *)
V_spotify == <<"s","p","o","t","i","f","y">>
V_0 == <<"0">>
V_abc == <<"a","b","c">>

\* the rule run() writes when no configuration file exists
DefaultRule ==
  [id |-> "wf_001", name |-> "Auto-move Spotify to workspace 5", enabled |-> TRUE,
   trigger |-> [type |-> T_openwindow, debounce |-> 100],
   conditions |-> <<[property |-> "class", operator |-> "equals", value |-> V_spotify]>>,
   actions |-> <<[command |-> "hyprctl dispatch movetoworkspace 5"]>>]

\* no 'enabled', no debounce, no conditions: fires on every openwindow
R_always ==
  [id |-> "b", name |-> "always", trigger |-> [type |-> T_openwindow],
   actions |-> <<[command |-> "c1"], [command |-> "c2"]>>]

R_off ==
  [id |-> "c", name |-> "off", enabled |-> FALSE, trigger |-> [type |-> T_openwindow],
   actions |-> <<[command |-> "c3"]>>]

\* same id as DefaultRule, longer window, no conditions
R_dup ==
  [id |-> "wf_001", name |-> "dup", enabled |-> TRUE,
   trigger |-> [type |-> T_openwindow, debounce |-> 150],
   conditions |-> <<>>, actions |-> <<[command |-> "c4"]>>]

\* numeric condition; the first action has no command to run
R_ws ==
  [id |-> "d", name |-> "ws", enabled |-> TRUE,
   trigger |-> [type |-> T_workspace],
   conditions |-> <<[property |-> "name", operator |-> "greater", value |-> V_0]>>,
   actions |-> <<[command |-> ""], [command |-> "c5"]>>]

\* non-numeric operand
R_nonnum ==
  [id |-> "e", name |-> "nonnum", enabled |-> TRUE, trigger |-> [type |-> T_workspace],
   conditions |-> <<[property |-> "name", operator |-> "less", value |-> V_abc]>>,
   actions |-> <<[command |-> "c6"]>>]

\* unknown operator
R_badop ==
  [id |-> "f", name |-> "badop", enabled |-> TRUE, trigger |-> [type |-> T_workspace],
   conditions |-> <<[property |-> "name", operator |-> "matches", value |-> V_0]>>,
   actions |-> <<[command |-> "c7"]>>]

Doc1 == <<DefaultRule, R_always, R_off>>
Doc2 == <<R_dup, DefaultRule>>
Doc3 == <<R_nonnum, R_ws, R_badop>>

\* what the configuration file can hold: a rule document, text that is not
\* JSON, or nothing (no file)
Documents ==
  {[kind |-> "valid", rules |-> Doc1], [kind |-> "valid", rules |-> Doc2],
   [kind |-> "valid", rules |-> Doc3], [kind |-> "invalid", rules |-> <<>>],
   [kind |-> "missing", rules |-> <<>>]}

\* lines as readline() returns them
L_open_spotify == <<"o","p","e","n","w","i","n","d","o","w",">",">","x",",","1",",","s","p","o","t","i","f","y",",","t","\n">>
L_open_short == <<"o","p","e","n","w","i","n","d","o","w",">",">","x","\n">>
L_ws == <<"w","o","r","k","s","p","a","c","e",">",">","2","\n">>
L_nodelim == <<"w","o","r","k","s","p","a","c","e"," ","2","\n">>
L_unknown == <<"z","z",">",">","1","\n">>
L_notype == <<">",">","x","\n">>

Lines == {L_open_spotify, L_open_short, L_ws, L_nodelim, L_unknown, L_notype}

(* ------------------------------- state --------------------------------- *)
VARIABLES
  pc,              \* position of the daemon: "start", "connecting", "read",
                   \* "parse", "match", "exec", "done", "closed"
  writer,          \* the socket stream: "none", "open", "closed"
  exit_code,       \* process exit status, -1 while running
  close_cause,     \* why the read loop was left: "none", "connect_failed",
                   \* "eof", "read_error", "process_error", "terminate"
  terminated,      \* cleanup_handler has run
  term_from,       \* where the daemon was when cleanup_handler ran
  config,          \* what the configuration file holds
  rules,           \* self.rules
  load_status,     \* what the last load_rules printed
  load_kept,       \* the last load_rules left self.rules as it was
  clock,           \* monotonic clock, ms
  last_event_time, \* self.last_event_time
  line,            \* event_str of the line being processed
  event,           \* result of parse_event for the line
  iter_rules,      \* the list the for loop of process_event iterates
  k,               \* index of the rule under evaluation
  j,               \* index of the action under execution
  fresh,           \* no reload since the line was read
  evald,           \* rules evaluated for the line, with the result
  disp,            \* indices of the rules dispatched for the line
  execd,           \* executor calls of the last dispatched rule
  fires,           \* per rule id, the times at which a debounced rule fired
  ev,              \* the last should_execute_rule call
  last_pass,       \* per rule id, when the debounce test last let it pass
  suppressed,      \* rule ids suppressed by the debounce test since that pass
  call             \* the last direct call of a method, with what it returned

vars == <<pc, writer, exit_code, close_cause, terminated, term_from, config, rules,
          load_status, load_kept, clock, last_event_time, line,
          event, iter_rules, k, j, fresh, evald, disp, execd, fires, ev, last_pass,
          suppressed, call>>

loopVars == <<line, event, iter_rules, k, j, fresh, evald, disp, execd, fires, ev>>
ruleVars == <<config, rules, load_status, load_kept>>
procVars == <<pc, writer, exit_code, close_cause, terminated, term_from>>
memVars == <<last_event_time, last_pass, suppressed>>

EmptyMap == [x \in {} |-> 0]
NoEvent == [none |-> TRUE, event_type |-> <<>>, event_data |-> <<>>]
NoExec == [active |-> FALSE, rule |-> EmptyDict, handed |-> <<>>, done |-> FALSE]
NoEval == [active |-> FALSE]
NoCall == [fn |-> "none", returned |-> FALSE]

(* ---------------------------- rule loading ----------------------------- *)
\* the except branch of load_rules
OnLoadError(old_rules) == <<>>

\* self.rules = json.load(f)
OnLoaded(old_rules, new_rules) == new_rules

\* without a file the rules stay as they were
OnMissing_keep(old_rules) == old_rules

\* the else branch of load_rules: no file, self.rules = []
OnMissing(old_rules) == <<>>

\* load_rules: the new self.rules and the message printed
load_rules(doc, old_rules) ==
  CASE doc.kind = "valid" -> [rules |-> OnLoaded(old_rules, doc.rules), report |-> "loaded"]
    [] doc.kind = "missing" -> [rules |-> OnMissing(old_rules), report |-> "notfound"]
    [] doc.kind = "invalid" -> [rules |-> OnLoadError(old_rules), report |-> "error"]

\* __init__: rules loaded from whatever the configuration file holds, which
\* is one of docs
ConstructedOn(docs) ==
  /\ config \in docs
  /\ rules = load_rules(config, <<>>).rules
  /\ load_status = load_rules(config, <<>>).report
  /\ load_kept = (rules = <<>>)
  /\ pc = "start"
  /\ writer = "none"
  /\ exit_code = -1
  /\ close_cause = "none"
  /\ terminated = FALSE
  /\ term_from = "none"
  /\ clock = 0
  /\ last_event_time = EmptyMap
  /\ last_pass = EmptyMap
  /\ suppressed = {}
  /\ line = <<>>
  /\ event = NoEvent
  /\ iter_rules = <<>>
  /\ k = 0
  /\ j = 0
  /\ fresh = TRUE
  /\ evald = <<>>
  /\ disp = <<>>
  /\ execd = NoExec
  /\ fires = EmptyMap
  /\ ev = NoEval

Constructed == ConstructedOn(Documents)

Init == Constructed /\ call = NoCall

\* the process ends: its memory is gone, the exit status is set
Exit(status) ==
  /\ pc' = "closed"
  /\ exit_code' = status
  /\ last_event_time' = EmptyMap
  /\ last_pass' = EmptyMap
  /\ suppressed' = {}
  /\ line' = <<>>
  /\ event' = NoEvent
  /\ iter_rules' = <<>>
  /\ k' = 0
  /\ j' = 0
  /\ fresh' = TRUE
  /\ evald' = <<>>
  /\ disp' = <<>>
  /\ execd' = NoExec
  /\ fires' = EmptyMap
  /\ ev' = NoEval

\* run() up to asyncio.run: handlers installed, default configuration
\* written and loaded when there is no file
Run ==
  /\ UNCHANGED call
  /\ pc = "start"
  /\ pc' = "connecting"
  /\ IF config.kind = "missing"
     THEN LET doc == [kind |-> "valid", rules |-> <<DefaultRule>>]
          IN  /\ config' = doc
              /\ load_kept' = (load_rules(doc, rules).rules = rules)
              /\ rules' = load_rules(doc, rules).rules
              /\ load_status' = load_rules(doc, rules).report
     ELSE UNCHANGED <<config, rules, load_status, load_kept>>
  /\ UNCHANGED <<writer, exit_code, close_cause, terminated, term_from, clock,
                 last_event_time, last_pass, suppressed>>
  /\ UNCHANGED loopVars

\* asyncio.open_unix_connection succeeds or raises
Connect(ok) ==
  /\ UNCHANGED call
  /\ pc = "connecting"
  /\ IF ok
     THEN /\ pc' = "read"
          /\ writer' = "open"
          /\ UNCHANGED <<exit_code, close_cause>>
     ELSE /\ pc' = "closed"
          /\ close_cause' = "connect_failed"
          /\ exit_code' = 0
          /\ UNCHANGED writer
  /\ UNCHANGED <<terminated, term_from, clock, last_event_time, last_pass, suppressed>>
  /\ UNCHANGED ruleVars
  /\ UNCHANGED loopVars

\* the monotonic clock advances: while waiting for a line, between two
\* rules, or while an action runs
Tick ==
  /\ UNCHANGED call
  /\ pc \in {"read", "match", "exec"}
  /\ clock + TickMs <= MaxTicks * TickMs
  /\ clock' = clock + TickMs
  /\ UNCHANGED <<last_event_time, last_pass, suppressed>>
  /\ UNCHANGED procVars
  /\ UNCHANGED ruleVars
  /\ UNCHANGED loopVars

Running == pc \in {"connecting", "read", "parse", "match", "exec"}

\* the reload starts the debounce state afresh
KeptOnReload_reset(let) == EmptyMap

\* reload_handler and load_rules do not touch self.last_event_time
KeptOnReload(let) == let

\* SIGHUP: reload_handler -> load_rules on the file as it is then
Reload(doc) ==
  /\ UNCHANGED call
  /\ Running
  /\ ~terminated
  /\ config' = doc
  /\ load_kept' = (load_rules(doc, rules).rules = rules)
  /\ rules' = load_rules(doc, rules).rules
  /\ load_status' = load_rules(doc, rules).report
  /\ fresh' = FALSE
  /\ last_event_time' = KeptOnReload(last_event_time)
  /\ UNCHANGED <<clock, last_pass, suppressed>>
  /\ UNCHANGED procVars
  /\ UNCHANGED <<line, event, iter_rules, k, j, evald, disp, execd, fires, ev>>

\* no finally block: the stream is left as it is
Finally_missing(w) == w

\* the finally block of listen_to_events: writer.close(), wait_closed()
Finally(w) == "closed"

\* SIGTERM / SIGINT: cleanup_handler raises SystemExit where the daemon is
Terminate ==
  /\ UNCHANGED call
  /\ Running
  /\ ~terminated
  /\ terminated' = TRUE
  /\ term_from' = pc
  /\ close_cause' = "terminate"
  /\ writer' = IF pc = "connecting" THEN writer ELSE Finally(writer)
  /\ Exit(0)
  /\ UNCHANGED clock
  /\ UNCHANGED ruleVars

\* a line is taken wherever the daemon is
AwaitsLine_anywhere(p) == p \in {"read", "match", "exec"}

\* line = await reader.readline(): the only place where a line is taken is
\* the top of the while loop
AwaitsLine(p) == p = "read"

\* reader.readline() returns a line; decode and strip
ReadLine(raw) ==
  /\ UNCHANGED call
  /\ AwaitsLine(pc)
  /\ line' = strip(raw)
  /\ pc' = "parse"
  /\ UNCHANGED <<event, iter_rules, k, j, fresh, evald, disp, execd, fires, ev>>
  /\ UNCHANGED <<writer, exit_code, close_cause, terminated, term_from, clock, last_event_time, last_pass, suppressed>>
  /\ UNCHANGED ruleVars

\* an empty read does not end the loop
LeavesLoop_onerror(cause) == cause # "eof"

\* if not line: break, and the except clause around the loop: either way
\* control goes to the finally block and listen_to_events returns
LeavesLoop(cause) == TRUE

\* what the process can exit with: wait_closed() in the finally block raises
\* again the error the connection was lost with, which nothing catches
ExitStatuses(cause) == IF cause = "read_error" THEN {0, 1} ELSE {0}

\* readline() returns b'' (peer closed), or readline()/decode() raises
ReadEnd(cause) ==
  /\ UNCHANGED call
  /\ pc = "read"
  /\ close_cause' = cause
  /\ IF LeavesLoop(cause)
     THEN /\ writer' = Finally(writer)
          /\ \E status \in ExitStatuses(cause) : Exit(status)
     ELSE /\ UNCHANGED <<pc, writer, exit_code>>
          /\ UNCHANGED memVars
          /\ UNCHANGED loopVars
  /\ UNCHANGED <<terminated, term_from, clock>>
  /\ UNCHANGED ruleVars

\* process_event has returned: back to the top of the while loop
LoopBack ==
  /\ UNCHANGED call
  /\ pc = "done"
  /\ pc' = "read"
  /\ line' = <<>>
  /\ event' = NoEvent
  /\ iter_rules' = <<>>
  /\ fresh' = TRUE
  /\ evald' = <<>>
  /\ disp' = <<>>
  /\ execd' = NoExec
  /\ ev' = NoEval
  /\ UNCHANGED <<k, j, fires>>
  /\ UNCHANGED <<writer, exit_code, close_cause, terminated, term_from, clock, last_event_time, last_pass, suppressed>>
  /\ UNCHANGED ruleVars

(* --------------------------- process_event ----------------------------- *)
\* the loop indexes self.rules anew at every iteration
CurrentRule_live(it, live, kk) == IF kk <= Len(live) THEN live[kk] ELSE it[kk]

\* for rule in self.rules: the iterator holds the list bound when the loop
\* started; 'live' is self.rules now
CurrentRule(it, live, kk) == it[kk]

\* the loop stops at the first rule that fired
NextRuleIndex_first(kk, n, fired) == IF fired THEN n + 1 ELSE kk + 1

\* the for loop goes on to the next rule whether or not the rule fired
NextRuleIndex(kk, n, fired) == kk + 1

\* a failed action ends the loop over the actions
NextActionIndex_abort(jj, n, outcome) == IF outcome = "ok" THEN jj + 1 ELSE n + 1

\* the for loop of execute_actions goes on whatever the executor did
NextActionIndex(jj, n, outcome) == jj + 1

\* if command:
ShouldRun(command) == command # "None" /\ command # ""

\* except Exception around subprocess.run
CatchesException(outcome) == TRUE

\* events of a type without a field-name table are dropped as well
Dropped_unknown(e) ==
  e.none \/ e.event_type = <<>> \/ e.event_data = <<>> \/ property_map(e.event_type) = EmptyDict

\* if not event_type or not event_data: return
Dropped(e) == e.none \/ e.event_type = <<>> \/ e.event_data = <<>>

\* an exception leaves process_event: except / finally of listen_to_events
Propagate ==
  /\ close_cause' = "process_error"
  /\ writer' = Finally(writer)
  /\ Exit(0)

\* the rule loop moves to index kk of the iterated list, or ends
GoRule(kk) ==
  /\ IF kk > Len(iter_rules)
     THEN pc' = "done" /\ k' = 0
     ELSE pc' = "match" /\ k' = kk
  /\ j' = 0
  /\ UNCHANGED <<writer, close_cause, exit_code>>

\* process_event up to the for loop: parse, drop what cannot be used
ParseStep ==
  /\ UNCHANGED call
  /\ pc = "parse"
  /\ LET e == parse_event(line)
     IN  /\ event' = e
         /\ IF Dropped(e)
            THEN /\ pc' = "done"
                 /\ iter_rules' = <<>>
                 /\ k' = 0
            ELSE /\ iter_rules' = rules
                 /\ IF rules = <<>> THEN pc' = "done" /\ k' = 0
                                    ELSE pc' = "match" /\ k' = 1
  /\ UNCHANGED <<line, j, fresh, evald, disp, execd, fires, ev>>
  /\ UNCHANGED <<writer, exit_code, close_cause, terminated, term_from, clock, last_event_time, last_pass, suppressed>>
  /\ UNCHANGED ruleVars

\* the actions are left for after the loop over the rules
EntersActions_later(actions) == FALSE

\* self.execute_actions(rule) is called, and returns, inside the iteration
\* of the rule that matched; with no action it returns at once
EntersActions(actions) == actions # <<>>

\* one iteration of the for loop: should_execute_rule on the next rule, and
\* the call of execute_actions when it returns True
MatchStep ==
  /\ UNCHANGED call
  /\ pc = "match"
  /\ LET rule == CurrentRule(iter_rules, rules, k)
         r == should_execute_rule(rule, event.event_type, event.event_data,
                                  last_event_time, clock)
         rule_id == Get(rule, "id", "")
         debounce_ms == Get(Get(rule, "trigger", EmptyDict), "debounce", 0)
         actions == Get(rule, "actions", <<>>)
     IN  IF r.exc
         THEN Propagate
         ELSE
         /\ last_event_time' = r.let
         /\ last_pass' = IF r.gate = "pass" THEN SetTime(last_pass, rule_id, clock)
                                            ELSE last_pass
         /\ suppressed' = CASE r.gate = "reject" -> suppressed \cup {rule_id}
                            [] r.gate = "pass" -> suppressed \ {rule_id}
                            [] OTHER -> suppressed
         /\ ev' = [active |-> TRUE, rule |-> rule, now |-> clock, gate |-> r.gate,
                   ret |-> r.ret, before |-> last_event_time, after |-> r.let,
                   passed |-> last_pass, suppressed |-> suppressed]
         /\ evald' = Append(evald, [rule |-> rule, ret |-> r.ret])
         /\ IF r.ret
            THEN /\ disp' = Append(disp, k)
                 /\ fires' = IF debounce_ms > 0
                             THEN SetTime(fires, rule_id,
                                          Append(Get(fires, rule_id, <<>>),
                                                 [t |-> clock, w |-> debounce_ms]))
                             ELSE fires
                 /\ execd' = [active |-> TRUE, rule |-> rule, handed |-> <<>>,
                              done |-> (actions = <<>>)]
                 /\ IF ~EntersActions(actions)
                    THEN GoRule(NextRuleIndex(k, Len(iter_rules), TRUE))
                    ELSE /\ pc' = "exec"
                         /\ j' = 1
                         /\ UNCHANGED <<k, writer, close_cause, exit_code>>
            ELSE /\ GoRule(NextRuleIndex(k, Len(iter_rules), FALSE))
                 /\ UNCHANGED <<disp, execd, fires>>
         /\ UNCHANGED <<line, event, iter_rules, fresh>>
  /\ UNCHANGED <<terminated, term_from, clock>>
  /\ UNCHANGED ruleVars

Outcomes == {"ok", "nonzero", "spawn_error"}

\* one iteration of the for loop of execute_actions; outcome is what
\* subprocess.run does: exit status 0, another exit status, or an exception
ExecStep(outcome) ==
  /\ UNCHANGED call
  /\ pc = "exec"
  /\ LET actions == Get(execd.rule, "actions", <<>>)
         n == Len(actions)
         command == Get(actions[j], "command", "None")
         jj == NextActionIndex(j, n, outcome)
         run == [j |-> j, command |-> command, outcome |-> outcome]
         Go == /\ IF jj > n
                  THEN GoRule(NextRuleIndex(k, Len(iter_rules), TRUE))
                  ELSE /\ j' = jj
                       /\ UNCHANGED <<pc, k, writer, close_cause, exit_code>>
               /\ UNCHANGED <<line, event, iter_rules, fresh, evald, disp, fires, ev>>
               /\ UNCHANGED memVars
     IN  IF ShouldRun(command)
         THEN IF outcome = "spawn_error" /\ ~CatchesException(outcome)
              THEN Propagate
              ELSE /\ execd' = [execd EXCEPT !.handed = Append(@, run), !.done = (jj > n)]
                   /\ Go
         ELSE /\ outcome = "ok"
              /\ execd' = [execd EXCEPT !.done = (jj > n)]
              /\ Go
  /\ UNCHANGED <<terminated, term_from, clock>>
  /\ UNCHANGED ruleVars

Next ==
  \/ Run
  \/ \E ok \in BOOLEAN : Connect(ok)
  \/ Tick
  \/ \E doc \in Documents : Reload(doc)
  \/ Terminate
  \/ \E raw \in Lines : ReadLine(raw)
  \/ \E cause \in {"eof", "read_error"} : ReadEnd(cause)
  \/ LoopBack
  \/ ParseStep
  \/ MatchStep
  \/ \E outcome \in Outcomes : ExecStep(outcome)

Spec == Init /\ [][Next]_vars

(* ------------------ direct calls of the pure methods ------------------- *)
\* everything of the daemon but the record of the direct call
daemonVars == <<procVars, ruleVars, memVars, loopVars, clock>>

LineChars == {"a", ">", ",", " "}

\* all texts over LineChars of at most n characters
Texts(n) == UNION {[1..m -> LineChars] : m \in 0..n}

\* openwindow>>0xdead,1,spotify,Spotify - Song
L_example == <<"o","p","e","n","w","i","n","d","o","w",">",">","0","x","d","e","a","d",",","1",",","s","p","o","t","i","f","y",",","S","p","o","t","i","f","y"," ","-"," ","S","o","n","g">>

EventStrings == Texts(MaxLineLen) \cup {L_example}

V_x == <<"x">>
V_1 == <<"1">>

\* field values and condition values: empty, numbers of one and two digits,
\* a number with a leading blank, letters, a digit followed by a letter
FieldValues ==
  {<<>>, <<"1">>, <<"2">>, <<"1","2">>, <<" ","2">>, <<"a">>, <<"b">>, <<"a","b">>, <<"1","a">>}

\* event data of one, two and three fields
EventDatas ==
  {<<a>> : a \in FieldValues} \cup {<<V_x, V_1>>} \cup {<<V_x, V_1, a>> : a \in FieldValues}

T_unknown == <<"z","z">>
EventTypes == {T_openwindow, T_activewindow, T_workspace, T_unknown}

Operators == {"equals", "contains", "startswith", "endswith", "greater", "less", "matches"}

Conditions ==
  [property : {"class", "name", "nope"}, operator : Operators, value : FieldValues]

\* the calls that can be made, with their arguments
PureCalls ==
  {[fn |-> "parse_event", returned |-> FALSE, event_str |-> event_str] :
     event_str \in EventStrings}
  \cup
  {[fn |-> "check_condition", returned |-> FALSE, condition |-> condition,
    event_data |-> event_data, event_type |-> event_type] :
     condition \in Conditions, event_data \in EventDatas, event_type \in EventTypes}

\* a constructed daemon and a call about to be made on it
PureInit == Constructed /\ call \in PureCalls

\* self.parse_event(event_str) returns
CallParseEvent ==
  /\ call.fn = "parse_event"
  /\ ~call.returned
  /\ call' = [fn |-> "parse_event", returned |-> TRUE, event_str |-> call.event_str,
              result |-> parse_event(call.event_str)]
  /\ UNCHANGED daemonVars

\* self.check_condition(condition, event_data, event_type) returns
CallCheckCondition ==
  /\ call.fn = "check_condition"
  /\ ~call.returned
  /\ call' = [fn |-> "check_condition", returned |-> TRUE, condition |-> call.condition,
              event_data |-> call.event_data, event_type |-> call.event_type,
              result |-> check_condition(call.condition, call.event_data, call.event_type)]
  /\ UNCHANGED daemonVars

PureNext == CallParseEvent \/ CallCheckCondition

SpecPure == PureInit /\ [][PureNext]_vars

(* ---------------- direct calls of should_execute_rule ------------------ *)
V_t == <<"t">>

\* an explicit window of 0 and an explicit empty list of conditions
R_zero ==
  [id |-> "z", name |-> "zero", enabled |-> TRUE,
   trigger |-> [type |-> T_openwindow, debounce |-> 0],
   conditions |-> <<>>, actions |-> <<[command |-> "c8"]>>]

\* two conditions, no window
R_two ==
  [id |-> "t", name |-> "two", enabled |-> TRUE, trigger |-> [type |-> T_openwindow],
   conditions |-> <<[property |-> "class", operator |-> "equals", value |-> V_spotify],
                    [property |-> "title", operator |-> "equals", value |-> V_t]>>,
   actions |-> <<[command |-> "c9"]>>]

\* disabled, with a window
R_off_w ==
  [id |-> "o", name |-> "off_w", enabled |-> FALSE,
   trigger |-> [type |-> T_openwindow, debounce |-> 100],
   actions |-> <<[command |-> "c10"]>>]

\* a second id with a window, on another event type
R_ws_w ==
  [id |-> "w", name |-> "ws_w", enabled |-> TRUE,
   trigger |-> [type |-> T_workspace, debounce |-> 50],
   actions |-> <<[command |-> "c11"]>>]

RuleInputs == {DefaultRule, R_always, R_off, R_dup, R_ws, R_zero, R_two, R_off_w, R_ws_w}

\* openwindow lines on which one of the two conditions of R_two fails
L_open_title == <<"o","p","e","n","w","i","n","d","o","w",">",">","x",",","1",",","s","p","o","t","i","f","y",",","u","\n">>
L_open_class == <<"o","p","e","n","w","i","n","d","o","w",">",">","x",",","1",",","y",",","t","\n">>

\* events as process_event hands them to should_execute_rule
EventInputs ==
  {parse_event(strip(l)) :
     l \in {L_open_spotify, L_open_short, L_open_title, L_open_class, L_ws}}

\* self.should_execute_rule(rule, event_type, event_data) called on the
\* daemon as it is, at the clock value of the moment; 'again' says that the
\* call before was the same call at the same clock value and returned True
CallShouldExecuteRule(rule, e) ==
  LET r == should_execute_rule(rule, e.event_type, e.event_data, last_event_time, clock)
  IN  /\ last_event_time' = r.let
      /\ call' = [fn |-> "should_execute_rule", returned |-> TRUE, rule |-> rule,
                  event |-> e, now |-> clock, before |-> last_event_time,
                  after |-> r.let,
                  result |-> [ret |-> r.ret, exc |-> r.exc, gate |-> r.gate],
                  again |-> /\ call.fn = "should_execute_rule"
                            /\ call.rule = rule
                            /\ call.event = e
                            /\ call.now = clock
                            /\ call.result.ret]
      /\ UNCHANGED <<last_pass, suppressed, clock>>
      /\ UNCHANGED procVars
      /\ UNCHANGED ruleVars
      /\ UNCHANGED loopVars

\* the monotonic clock advances between two calls
Elapse ==
  /\ clock + TickMs <= MaxTicks * TickMs
  /\ clock' = clock + TickMs
  /\ UNCHANGED <<call, memVars>>
  /\ UNCHANGED procVars
  /\ UNCHANGED ruleVars
  /\ UNCHANGED loopVars

RuleNext ==
  \/ \E rule \in RuleInputs, e \in EventInputs : CallShouldExecuteRule(rule, e)
  \/ Elapse

SpecRule == Init /\ [][RuleNext]_vars

(* ------------- the daemon on rule sets with duplicate ids -------------- *)
\* two rules with the same id and windows of 50 and 100 ms
R_s1 ==
  [id |-> "s", name |-> "s1", enabled |-> TRUE,
   trigger |-> [type |-> T_openwindow, debounce |-> 50],
   conditions |-> <<[property |-> "class", operator |-> "equals", value |-> V_spotify]>>,
   actions |-> <<[command |-> "d1"]>>]

R_s2 ==
  [id |-> "s", name |-> "s2", enabled |-> TRUE,
   trigger |-> [type |-> T_openwindow, debounce |-> 100],
   conditions |-> <<>>, actions |-> <<[command |-> "d2"]>>]

\* two rules without an id
R_n1 ==
  [name |-> "n1", enabled |-> TRUE,
   trigger |-> [type |-> T_openwindow, debounce |-> 50],
   actions |-> <<[command |-> "d3"]>>]

R_n2 ==
  [name |-> "n2", enabled |-> TRUE,
   trigger |-> [type |-> T_openwindow, debounce |-> 100],
   conditions |-> <<[property |-> "class", operator |-> "equals", value |-> V_spotify]>>,
   actions |-> <<[command |-> "d4"]>>]

DocSameId == <<R_s1, R_s2>>
DocNoId == <<R_n1, R_n2>>

DupDocuments ==
  {[kind |-> "valid", rules |-> DocSameId], [kind |-> "valid", rules |-> DocNoId]}

DupLines == {L_open_spotify, L_open_short}

\* the daemon constructed on one of these documents
DupInit == ConstructedOn(DupDocuments) /\ call = NoCall

\* the daemon as in Next on these lines, the configuration file being left
\* alone while it runs
DupNext ==
  \/ Run
  \/ \E ok \in BOOLEAN : Connect(ok)
  \/ Tick
  \/ Terminate
  \/ \E raw \in DupLines : ReadLine(raw)
  \/ \E cause \in {"eof", "read_error"} : ReadEnd(cause)
  \/ LoopBack
  \/ ParseStep
  \/ MatchStep
  \/ \E outcome \in Outcomes : ExecStep(outcome)

SpecDup == DupInit /\ [][DupNext]_vars

(* ------------------------------ claims --------------------------------- *)
Enabled(rule) == Get(rule, "enabled", TRUE)
Window(rule) == Get(Get(rule, "trigger", EmptyDict), "debounce", 0)
TypeOf(rule) == Get(Get(rule, "trigger", EmptyDict), "type", NoType)
IdOf(rule) == Get(rule, "id", "")
ConditionsHold(rule, e) ==
  \A i \in 1..Len(Get(rule, "conditions", <<>>)) :
    check_condition(Get(rule, "conditions", <<>>)[i], e.event_data, e.event_type).ret
Indices(n) == [i \in 1..n |-> i]

\* C1: a reload whose document cannot be parsed reports an error and leaves
\* self.rules exactly as it was before the reload.
C1_ReloadKeepsRulesOnParseError == load_status = "error" => load_kept

\* C2: two fires of a rule id with a debounce window W > 0 are at least W
\* apart: for any two dispatches recorded for the id, the later one happened
\* no sooner than its window after the earlier one.
C2_DebounceSeparation ==
  \A id \in DOMAIN fires : \A a, b \in 1..Len(fires[id]) :
    a < b => fires[id][b].t - fires[id][a].t >= fires[id][b].w

\* a debounced rule id has fired twice
C2_Witness == \E id \in DOMAIN fires : Len(fires[id]) >= 2

\* C3: an event rejected by the debounce test leaves the last-fire map as it
\* was, the map always holds the time of the last pass of each id, and an
\* event that reaches the test at least W after that last pass does pass
\* (and fires when the conditions hold), however many events were suppressed
\* in between.
C3_SuppressedLeavesWindow ==
  /\ last_event_time = last_pass
  /\ ev.active =>
       /\ ev.gate = "reject" => ev.after = ev.before
       /\ (ev.gate \in {"pass", "reject"}
           /\ ev.now - LastTime(ev.passed, IdOf(ev.rule)) >= Window(ev.rule))
          => (ev.gate = "pass" /\ ev.ret = ConditionsHold(ev.rule, event))

\* a rule fires after events for it were suppressed since its last pass
C3_Witness ==
  /\ ev.active
  /\ ev.gate = "pass"
  /\ ev.ret
  /\ IdOf(ev.rule) \in ev.suppressed
  /\ IdOf(ev.rule) \in DOMAIN ev.passed

\* C4: no rule with enabled = false is ever dispatched: every rule for which
\* should_execute_rule returned True, and every rule whose actions are
\* executed, is enabled.
C4_DisabledNeverFires ==
  /\ \A i \in 1..Len(evald) : evald[i].ret => Enabled(evald[i].rule)
  /\ execd.active => Enabled(execd.rule)

\* a disabled rule whose type matches, with no window and no conditions,
\* was evaluated and did not fire
C4_Witness ==
  \E i \in 1..Len(evald) :
    /\ ~Enabled(evald[i].rule)
    /\ TypeOf(evald[i].rule) = event.event_type
    /\ Window(evald[i].rule) = 0
    /\ ConditionsHold(evald[i].rule, event)
    /\ ~evald[i].ret

\* C5: the rules are evaluated in the order of the rule set, the rules
\* dispatched for an event are exactly those for which the matcher returned
\* True, in that order, and when the event is done every rule of the rule
\* set was evaluated, whatever fired before it.
C5_AllMatchesInOrder ==
  /\ Len(evald) <= Len(iter_rules)
  /\ \A i \in 1..Len(evald) : evald[i].rule = iter_rules[i]
  /\ disp = SelectSeq(Indices(Len(evald)), LAMBDA i : evald[i].ret)
  /\ pc = "done" => Len(evald) = Len(iter_rules)

\* two rules fired for one event and a third was evaluated after them
C5_Witness == pc = "done" /\ disp = <<1, 2>> /\ Len(evald) = 3

HandedIdx == [i \in 1..Len(execd.handed) |-> execd.handed[i].j]
HasCommand(action) == Get(action, "command", "None") \notin {"None", ""}
Runnable(actions) == SelectSeq(Indices(Len(actions)), LAMBDA i : HasCommand(actions[i]))

\* C6 as stated: when the actions of a fired rule are done, every action of
\* the rule was handed to the executor exactly once, in list order.
C6_EveryActionHanded ==
  (execd.active /\ execd.done) =>
    HandedIdx = Indices(Len(Get(execd.rule, "actions", <<>>)))

\* C6 as amended: the actions of a fired rule that have a non-empty command
\* are handed to the executor exactly once each, in list order, with their
\* command string; a failed call (non-zero exit or spawn error) stops
\* neither the later actions of the rule nor the later rules of the event.
C6_ActionFailureIsolation ==
  /\ execd.active =>
       LET actions == Get(execd.rule, "actions", <<>>)
       IN  /\ execd.done => HandedIdx = Runnable(actions)
           /\ \E m \in 0..Len(Runnable(actions)) : HandedIdx = SubSeq(Runnable(actions), 1, m)
           /\ \A i \in 1..Len(execd.handed) :
                execd.handed[i].command = actions[execd.handed[i].j].command
           /\ pc \in {"match", "done"} => execd.done
  /\ pc = "done" => Len(evald) = Len(iter_rules)

\* the first action of a fired rule failed to spawn, the second was still
\* handed over, and the rule after it was evaluated
C6_Witness ==
  /\ pc = "done"
  /\ execd.done
  /\ Len(execd.handed) = 2
  /\ execd.handed[1].outcome = "spawn_error"
  /\ execd.rule = iter_rules[2]
  /\ Len(evald) = 3

NoDelim == DelimAt(line) = {}

\* C7: a line without '>>' is dropped: parse_event returns nothing, no rule
\* is evaluated and no action dispatched for it, processing it changes
\* neither the last-fire map nor the rule set, and the loop goes back to
\* reading.
C7_MalformedDropped ==
  /\ [](( pc \in {"parse", "match", "exec", "done"} /\ NoDelim) =>
          /\ pc \in {"parse", "done"}
          /\ evald = <<>> /\ disp = <<>> /\ ~execd.active /\ ~ev.active
          /\ pc = "done" => (event.none /\ ENABLED LoopBack))
  /\ [][(pc = "parse" /\ NoDelim /\ pc' # "parse" /\ ~terminated') =>
          /\ pc' = "done"
          /\ parse_event(line).none
          /\ UNCHANGED <<last_event_time, rules, fires>>]_vars

\* a line without '>>' was dropped while rules and debounce state exist
C7_Witness ==
  /\ pc = "done"
  /\ NoDelim
  /\ line # <<>>
  /\ rules # <<>>
  /\ last_event_time # EmptyMap

Versions == {d.rules : d \in Documents} \cup {<<DefaultRule>>}

\* C8: a successful load makes self.rules exactly the rules of the document;
\* a line read after the last reload is matched against the live rule set;
\* and the rules evaluated for one line all come, in order, from one and
\* the same rule set, also when a reload arrives while the line is
\* processed.
C8_ReloadReplacesAtomically ==
  /\ load_status = "loaded" => (config.kind = "valid" /\ rules = config.rules)
  /\ (pc \in {"match", "exec", "done"} /\ fresh /\ ~Dropped(event)) => iter_rules = rules
  /\ iter_rules \in Versions
  /\ \A i \in 1..Len(evald) : evald[i].rule = iter_rules[i]

\* a reload to another document arrived while a line was processed, and the
\* line was finished on the rule set it started with
C8_Witness ==
  /\ pc = "done"
  /\ ~fresh
  /\ load_status = "loaded"
  /\ rules # <<>>
  /\ iter_rules # rules
  /\ Len(evald) = 3

\* C9: once a terminate signal was handled the loop has ended, nothing more
\* is read or processed, and the stream was closed when the signal came
\* while blocked in read, parsing, matching or executing an action.
C9_TerminateReleasesSocket ==
  terminated =>
    /\ pc = "closed"
    /\ exit_code = 0
    /\ writer # "open"
    /\ term_from \in {"read", "parse", "match", "exec"} => writer = "closed"
    /\ ~ENABLED Next

\* the terminate signal came during the execution of an action
C9_Witness == terminated /\ term_from = "exec" /\ writer = "closed"

\* C10: no failure while a line is processed ends the loop: a connected
\* loop is only left on end of stream, a read failure or a terminate
\* signal, processing can always take its next step, and a processed line
\* leads back to reading.
C10_SteadyStateFailuresAbsorbed ==
  /\ close_cause # "process_error"
  /\ (pc = "closed" /\ writer # "none") => close_cause \in {"eof", "read_error", "terminate"}
  /\ pc = "parse" => ENABLED ParseStep
  /\ pc = "match" => ENABLED MatchStep
  /\ pc = "exec" => ENABLED (\E outcome \in Outcomes : ExecStep(outcome))
  /\ pc = "done" => ENABLED LoopBack

\* a line met a non-numeric operand, an unknown operator and a failing
\* action, and the loop is about to read again
C10_Witness ==
  /\ pc = "done"
  /\ iter_rules = Doc3
  /\ Len(evald) = 3
  /\ execd.done
  /\ \E i \in 1..Len(execd.handed) : execd.handed[i].outcome # "ok"

\* C11: a failed connect at startup is fatal: the loop never has a
\* connection, no line is read and no rule evaluated, the failure is
\* reported, and the process ends with a non-zero exit status.
C11_ConnectFailureFatal ==
  close_cause = "connect_failed" =>
    /\ pc = "closed"
    /\ writer = "none"
    /\ line = <<>> /\ evald = <<>> /\ ~ev.active
    /\ exit_code # 0

\* the field the condition of the call compares, when it resolves
CallResolves ==
  /\ call.fn = "check_condition"
  /\ call.returned
  /\ call.condition.property \in DOMAIN property_map(call.event_type)
  /\ property_map(call.event_type)[call.condition.property] < Len(call.event_data)
CallField == call.event_data[property_map(call.event_type)[call.condition.property] + 1]

\* C12: a condition whose event type is not in the field-name table, whose
\* property is not listed for the type, or whose index is not below the number
\* of fields of the event, evaluates to false without an error, whatever the
\* operator and the value.
C12_UnresolvedIsFalse ==
  (call.fn = "check_condition" /\ call.returned /\ ~CallResolves) =>
    (~call.result.ret /\ ~call.result.exc)

\* an 'equals' condition on a property listed for the type whose index is
\* past the last field, with a value that one of the fields does equal
C12_Witness ==
  /\ call.fn = "check_condition"
  /\ call.returned
  /\ call.condition.property \in DOMAIN property_map(call.event_type)
  /\ property_map(call.event_type)[call.condition.property] >= Len(call.event_data)
  /\ call.condition.operator = "equals"
  /\ \E i \in 1..Len(call.event_data) : call.event_data[i] = call.condition.value
  /\ ~call.result.ret

IsSubstring(v, a) == \E i \in 0..Len(a) : \E n \in i..Len(a) : SubSeq(a, i + 1, n) = v
IsPrefix(v, a) == \E n \in 0..Len(a) : SubSeq(a, 1, n) = v
IsSuffix(v, a) == \E n \in 0..Len(a) : SubSeq(a, n + 1, Len(a)) = v

\* C13: on a resolved field a and a value v, check_condition returns a = v
\* for 'equals', v inside a for 'contains', v a prefix of a for 'startswith',
\* v a suffix of a for 'endswith', num(a) > num(v) for 'greater' and
\* num(a) < num(v) for 'less' when both are numbers, false when one of them
\* is not, and false for any other operator; it never raises.
C13_OperatorSemantics ==
  CallResolves =>
    LET a == CallField
        v == call.condition.value
        op == call.condition.operator
        numbers == float(a).ok /\ float(v).ok
    IN  /\ ~call.result.exc
        /\ call.result.ret =
             CASE op = "equals" -> a = v
               [] op = "contains" -> IsSubstring(v, a)
               [] op = "startswith" -> IsPrefix(v, a)
               [] op = "endswith" -> IsSuffix(v, a)
               [] op = "greater" -> numbers /\ float(a).val > float(v).val
               [] op = "less" -> numbers /\ float(a).val < float(v).val
               [] OTHER -> FALSE

\* 'greater' on two numbers that compare the other way round as texts
C13_Witness ==
  /\ CallResolves
  /\ call.condition.operator = "greater"
  /\ CallField = <<"1","2">>
  /\ call.condition.value = <<"2">>
  /\ call.result.ret

HasDelim(s) == \E i \in 1..(Len(s) - 1) : s[i] = ">" /\ s[i + 1] = ">"

RECURSIVE JoinComma(_)
JoinComma(f) ==
  IF Len(f) = 1 THEN f[1]
  ELSE JoinComma(SubSeq(f, 1, Len(f) - 1)) \o <<",">> \o f[Len(f)]

\* C14: for a text that contains '>>', parse_event returns as type the text
\* before the first '>>' and as fields the text after it cut at every ',':
\* the type followed by '>>' and the fields joined by ',' is the text again,
\* no '>>' starts inside the type, and no field holds a ','; the example
\* line of the claim gives openwindow and its four fields.
C14_ParserResult ==
  (call.fn = "parse_event" /\ call.returned /\ HasDelim(call.event_str)) =>
    LET t == call.result.event_type
        f == call.result.event_data
    IN  /\ ~call.result.none
        /\ Len(f) >= 1
        /\ call.event_str = t \o <<">", ">">> \o JoinComma(f)
        /\ ~HasDelim(t \o <<">">>)
        /\ \A i \in 1..Len(f) : \A n \in 1..Len(f[i]) : f[i][n] # ","
        /\ call.event_str = L_example =>
             /\ t = T_openwindow
             /\ f = << <<"0","x","d","e","a","d">>, <<"1">>, V_spotify,
                       <<"S","p","o","t","i","f","y"," ","-"," ","S","o","n","g">> >>

\* a text with a second '>>' after a comma: the second one stays in a field
C14_Witness ==
  /\ call.fn = "parse_event"
  /\ call.returned
  /\ Len(call.result.event_data) = 2
  /\ call.result.event_data[1] = <<>>
  /\ HasDelim(call.result.event_data[2])

\* C15: the debounce test comes before the conditions: an event that passes
\* it is recorded as the last time of the rule id whether or not the
\* conditions then hold (and nothing is dispatched when they do not), and an
\* event for an enabled rule of matching type that comes less than the window
\* after the recorded time is rejected and not dispatched, whatever its
\* conditions.
C15_GateBeforeConditions ==
  ev.active =>
    LET id == IdOf(ev.rule)
        W == Window(ev.rule)
    IN  /\ ev.gate = "pass" => (id \in DOMAIN ev.after /\ ev.after[id] = ev.now)
        /\ ~ev.ret => \A i \in 1..Len(disp) : disp[i] # Len(evald)
        /\ (/\ Enabled(ev.rule)
            /\ TypeOf(ev.rule) = event.event_type
            /\ W > 0
            /\ id \in DOMAIN ev.before
            /\ ev.now < ev.before[id] + W)
           => (ev.gate = "reject" /\ ~ev.ret /\ ev.after = ev.before)

\* an event whose conditions all hold is rejected because of a recorded time
\* of a rule id that has never fired: the time was recorded by an event whose
\* conditions failed
C15_Witness ==
  /\ ev.active
  /\ ev.gate = "reject"
  /\ ConditionsHold(ev.rule, event)
  /\ IdOf(ev.rule) \in DOMAIN ev.before
  /\ IdOf(ev.rule) \notin DOMAIN fires

\* C16: for a rule with window 0, or without a debounce field, the debounce
\* test is not made: the call leaves the last-time map as it was, and an
\* enabled rule of matching type returns True exactly when its conditions
\* hold, at every clock value and whatever the map holds.
C16_NoWindowNoDebounce ==
  (call.fn = "should_execute_rule" /\ Window(call.rule) = 0) =>
    /\ call.result.gate = "none"
    /\ call.after = call.before
    /\ last_event_time = call.before
    /\ (Enabled(call.rule) /\ TypeOf(call.rule) = call.event.event_type)
         => call.result.ret = ConditionsHold(call.rule, call.event)

\* a rule with an explicit window of 0 returned True twice in a row for the
\* same event at the same clock value, while the map holds times of others
C16_Witness ==
  /\ call.fn = "should_execute_rule"
  /\ "debounce" \in DOMAIN call.rule.trigger
  /\ call.rule.trigger.debounce = 0
  /\ call.result.ret
  /\ call.again
  /\ call.before # EmptyMap

\* C20: an enabled rule whose type is that of the event and that the debounce
\* test does not reject returns True exactly when every condition of its list
\* evaluates true; with an empty list, or none, it returns True.
C20_ConditionsAnded ==
  (/\ call.fn = "should_execute_rule"
   /\ Enabled(call.rule)
   /\ TypeOf(call.rule) = call.event.event_type
   /\ call.result.gate # "reject")
  => LET conditions == Get(call.rule, "conditions", <<>>)
     IN  /\ call.result.ret =
               \A i \in 1..Len(conditions) :
                 check_condition(conditions[i], call.event.event_data,
                                 call.event.event_type).ret
         /\ conditions = <<>> => call.result.ret

\* a rule with two conditions, the first true and the second false, did not
\* fire
C20_Witness ==
  /\ call.fn = "should_execute_rule"
  /\ Len(Get(call.rule, "conditions", <<>>)) = 2
  /\ check_condition(call.rule.conditions[1], call.event.event_data,
                     call.event.event_type).ret
  /\ ~check_condition(call.rule.conditions[2], call.event.event_data,
                      call.event.event_type).ret
  /\ ~call.result.ret

\* C17: a reload resets the debounce state: right after a reload no rule of
\* the rule set is held back by a time recorded before the reload, so that
\* the first matching event after the reload passes the debounce test even
\* if the rule id passed it less than its window before the reload.
C17_ReloadResetsDebounce ==
  [][(\E doc \in Documents : Reload(doc)) =>
       \A i \in 1..Len(rules') :
         (Window(rules'[i]) > 0 /\ IdOf(rules'[i]) \in DOMAIN last_event_time')
           => ~Debounced(clock', last_event_time'[IdOf(rules'[i])], Window(rules'[i]))]_vars

Disconnected == pc \in {"start", "connecting"}
Connected == pc = "read"
Processing == pc \in {"parse", "match", "exec", "done"}
Closed == pc = "closed"

\* C18: an empty read or a read failure takes the loop from Connected to
\* Closed with the stream closed; Closed is terminal: nothing is enabled
\* there, so there is no reconnect and no further line; and the loop states
\* only follow Disconnected -> Connected -> Processing -> Connected -> ...
\* -> Closed.
C18_EndOfStreamCloses ==
  /\ [](close_cause \in {"eof", "read_error"} => (Closed /\ writer = "closed"))
  /\ [](Closed => ~ENABLED Next)
  /\ [][/\ (close_cause' # close_cause /\ close_cause' \in {"eof", "read_error"})
             => (Connected /\ Closed' /\ writer' = "closed")
        /\ Closed => Closed'
        /\ Disconnected' => Disconnected
        /\ (Connected' /\ ~Connected) => (Disconnected \/ Processing)
        /\ (Processing' /\ ~Processing) => Connected]_vars

\* the loop was closed by a read failure after time had passed in it
C18_Witness ==
  /\ Closed
  /\ close_cause = "read_error"
  /\ writer = "closed"
  /\ clock > 0

\* C19: one line at a time, to completion: a line is only taken at the top
\* of the loop, where nothing of the line before is pending; the loop comes
\* back there only from a processed line, for which the line was dropped or
\* every rule of the iterated list was evaluated; and the actions of a
\* dispatched rule are all done before the next rule or the next line.
C19_OneLineAtATime ==
  /\ [](pc = "read" =>
          (line = <<>> /\ event = NoEvent /\ evald = <<>> /\ disp = <<>> /\ ~execd.active))
  /\ [](pc = "done" =>
          /\ (Dropped(event) /\ evald = <<>>) \/ Len(evald) = Len(iter_rules)
          /\ execd.active => execd.done)
  /\ [][/\ (pc' = "parse" /\ pc # "parse") => pc = "read"
        /\ (pc' = "read" /\ pc # "read") => pc \in {"connecting", "done"}
        /\ (pc = "exec" /\ pc' \in {"match", "done"}) => execd'.done]_vars

\* a line for which two rules were dispatched, the second with two actions,
\* is complete, and time passed while it was processed
C19_Witness ==
  /\ pc = "done"
  /\ Len(disp) = 2
  /\ execd.done
  /\ Len(execd.handed) = 2
  /\ \E id \in DOMAIN fires : fires[id][Len(fires[id])].t < clock

\* the second of two enabled rules with the same id, the type of the event
\* and windows > 0 has just been evaluated, and the first passed the debounce
\* test for the same event (it is not among the ids rejected since the last
\* pass)
LaterOfPair ==
  /\ ev.active
  /\ Len(iter_rules) = 2
  /\ Len(evald) = 2
  /\ IdOf(iter_rules[1]) = IdOf(iter_rules[2])
  /\ \A i \in 1..2 :
       /\ Enabled(iter_rules[i])
       /\ TypeOf(iter_rules[i]) = event.event_type
       /\ Window(iter_rules[i]) > 0
  /\ IdOf(ev.rule) \notin ev.suppressed

\* an enabled rule of the type of the event with a window is evaluated less
\* than its window after the time recorded for its id
InsideWindow ==
  /\ ev.active
  /\ Enabled(ev.rule)
  /\ TypeOf(ev.rule) = event.event_type
  /\ Window(ev.rule) > 0
  /\ IdOf(ev.rule) \in DOMAIN ev.before
  /\ ev.now - ev.before[IdOf(ev.rule)] < Window(ev.rule)

\* C21 as stated: when the earlier of two rules with the same id passes the
\* debounce test for an event, the later rule is rejected for that same
\* event, and for every event within its window of the recorded time,
\* whatever its conditions.
C21_DuplicateIdSuppressed ==
  /\ LaterOfPair => (ev.gate = "reject" /\ ~ev.ret)
  /\ InsideWindow => (ev.gate = "reject" /\ ~ev.ret)

\* C21 as amended: the two rules share one entry, that of their id; the
\* later rule is evaluated after the actions of the earlier one have
\* returned, with the clock value of that moment, and it is rejected exactly
\* when that is less than its own window after the recorded time, for the
\* same event as for a later one, whatever its conditions.
C21_DuplicateIdSharesEntry ==
  /\ LaterOfPair =>
       /\ IdOf(ev.rule) \in DOMAIN ev.before
       /\ ev.before[IdOf(ev.rule)] <= ev.now
       /\ ev.gate \in {"pass", "reject"}
       /\ (ev.gate = "reject") = (ev.now - ev.before[IdOf(ev.rule)] < Window(ev.rule))
       /\ ev.gate = "reject" => ~ev.ret
       /\ IdOf(ev.rule) \in DOMAIN ev.after
  /\ InsideWindow => (ev.gate = "reject" /\ ~ev.ret)

\* the later of two rules without an id is rejected for the event for which
\* the earlier one passed, although its conditions hold
C21_Witness ==
  /\ LaterOfPair
  /\ "id" \notin DOMAIN ev.rule
  /\ ev.gate = "reject"
  /\ ConditionsHold(ev.rule, event)

\* every rule of the live rule set was evaluated for the line, in order
AllRulesEvaluated ==
  /\ Len(evald) = Len(rules)
  /\ \A i \in 1..Len(evald) : evald[i].rule = rules[i]

\* C22 as stated: for every line that contains '>>', whatever its type text
\* and fields, every rule of the current rule set is evaluated in order
\* (the rule set is the live one when no reload came since the line was
\* read).
C22_EveryParsedEventMatched ==
  (pc = "done" /\ fresh /\ ~NoDelim) => AllRulesEvaluated

\* C22 as amended: for every line that contains '>>' and has a non-empty
\* type text before the first '>>', recognized or not, every rule of the
\* current rule set is evaluated in order; a line that starts with '>>' is
\* parsed and then dropped without any rule being evaluated.
C22_NonEmptyTypeMatched ==
  /\ (pc = "done" /\ fresh /\ ~NoDelim /\ Min(DelimAt(line)) > 1) => AllRulesEvaluated
  /\ (pc = "done" /\ ~NoDelim /\ Min(DelimAt(line)) = 1) => (~event.none /\ evald = <<>>)

\* a line of an unrecognized type was evaluated against three rules
C22_Witness ==
  /\ pc = "done"
  /\ fresh
  /\ event.event_type = T_unknown
  /\ Len(rules) = 3
  /\ Len(evald) = 3

\* C23: a rule with a window > 0 whose id has no entry in the last-time map
\* passes the debounce test on the first event of its type, at every clock
\* value, also below its window.
C23_NeverFiredNotDebounced ==
  (/\ ev.active
   /\ ev.gate \in {"pass", "reject"}
   /\ IdOf(ev.rule) \notin DOMAIN ev.before)
  => ev.gate = "pass"

\* C24: a call of should_execute_rule on a disabled rule, or on a rule whose
\* trigger type is not the type of the event, leaves the whole last-time map
\* as it was; the map changes only when an enabled rule of the type of the
\* event with a window > 0 passes the debounce test, and then only in the
\* entry of the id of that rule.
C24_EarlyRejectionsLeaveMap ==
  call.fn = "should_execute_rule" =>
    /\ last_event_time = call.after
    /\ (~Enabled(call.rule) \/ TypeOf(call.rule) # call.event.event_type)
         => call.after = call.before
    /\ call.after # call.before =>
         /\ Enabled(call.rule)
         /\ TypeOf(call.rule) = call.event.event_type
         /\ Window(call.rule) > 0
         /\ call.result.gate = "pass"
         /\ DOMAIN call.after = DOMAIN call.before \cup {IdOf(call.rule)}
         /\ \A x \in DOMAIN call.before \ {IdOf(call.rule)} : call.after[x] = call.before[x]

\* a rule with a window whose type is not that of the event is evaluated
\* when its window has long passed, and the map, which holds the time of
\* another id, stays as it was
C24_Witness ==
  /\ call.fn = "should_execute_rule"
  /\ Enabled(call.rule)
  /\ Window(call.rule) > 0
  /\ TypeOf(call.rule) # call.event.event_type
  /\ call.now - LastTime(call.before, IdOf(call.rule)) >= Window(call.rule)
  /\ DOMAIN call.before = {"wf_001", "w"} \ {IdOf(call.rule)}
  /\ call.after = call.before

\* C25: matching and dispatch are interleaved rule by rule: while the
\* actions of rule k run, rules 1..k and no others have been evaluated for
\* the event; a rule is evaluated only when the actions of the rule
\* dispatched before it are all done, and with the clock value of that
\* moment.
C25_MatchDispatchInterleaved ==
  /\ []((pc = "match" /\ execd.active) => execd.done)
  /\ [](pc = "exec" =>
          /\ execd.active
          /\ execd.rule = iter_rules[k]
          /\ Len(evald) = k
          /\ evald[k].ret
          /\ disp # <<>> /\ disp[Len(disp)] = k)
  /\ [](ev.active => ev.now <= clock)
  /\ [][Len(evald') > Len(evald) =>
          /\ pc = "match"
          /\ execd.active => execd.done
          /\ Len(evald') = Len(evald) + 1
          /\ ev'.rule = iter_rules[Len(evald')]
          /\ ev'.now = clock]_vars

\* the first rule fired, time passed while its action ran, and the second
\* rule met the debounce test with a later clock value
C25_Witness ==
  /\ ev.active
  /\ Len(evald) = 2
  /\ evald[1].ret
  /\ ev.gate \in {"pass", "reject"}
  /\ IdOf(iter_rules[1]) \in DOMAIN fires
  /\ fires[IdOf(iter_rules[1])][Len(fires[IdOf(iter_rules[1])])].t < ev.now

\* C26: every entry of the last-time map is at most the clock value; while
\* the daemon runs no step, of an event or of a reload, removes an entry or
\* decreases it; and an entry only changes in the evaluation of a rule of its
\* id, by at least the window of that rule.
C26_TimestampsMonotone ==
  /\ [](\A id \in DOMAIN last_event_time : last_event_time[id] <= clock)
  /\ [][pc' # "closed" =>
          \A id \in DOMAIN last_event_time :
            /\ id \in DOMAIN last_event_time'
            /\ last_event_time'[id] >= last_event_time[id]
            /\ last_event_time'[id] # last_event_time[id] =>
                 /\ ev'.active
                 /\ IdOf(ev'.rule) = id
                 /\ last_event_time'[id] - last_event_time[id] >= Window(ev'.rule)]_vars

\* an entry that was raised once is still there after a reload that found no
\* configuration file
C26_Witness ==
  /\ pc # "closed"
  /\ load_status = "notfound"
  /\ \E id \in DOMAIN last_event_time :
       /\ id \in DOMAIN fires
       /\ fires[id][1].t < last_event_time[id]

\* C27: a reload while the configuration file does not exist leaves the
\* daemon with an empty rule set and does not move the loop or touch the
\* stream; with an empty rule set no rule is evaluated or dispatched for a
\* line read since; and the rule set only becomes non-empty again by a load
\* of a document.
C27_MissingDocumentEmptiesRules ==
  /\ [](load_status = "notfound" => rules = <<>>)
  /\ []((pc \in {"match", "exec", "done"} /\ fresh /\ rules = <<>>)
          => (pc = "done" /\ evald = <<>> /\ disp = <<>> /\ ~execd.active))
  /\ [][/\ (\E doc \in Documents : doc.kind = "missing" /\ Reload(doc))
             => (rules' = <<>> /\ load_status' = "notfound" /\ pc' = pc /\ writer' = writer)
        /\ (rules = <<>> /\ rules' # <<>>)
             => (load_status' = "loaded" /\ config'.kind = "valid")]_vars

\* after rules had fired, a reload found no file, and a line of a known type
\* read since went through without any rule being evaluated, the stream
\* still open
C27_Witness ==
  /\ pc = "done"
  /\ load_status = "notfound"
  /\ fresh
  /\ ~Dropped(event)
  /\ evald = <<>>
  /\ writer = "open"
  /\ last_event_time # EmptyMap

====
